---- MODULE Spec2Model ----
(***************************************************************************)
(* Call monitoring core of insidata-agent-manager:                         *)
(*   src/src/features/callMonitoring.js  (class CallMonitor)               *)
(*   src/src/utils/retry.js              (retry)                           *)
(*                                                                         *)
(* The monitor is modelled as a state machine over the fields of one       *)
(* CallMonitor object, the call-record objects (those in the Map, and those *)
(* a suspended sweep still holds after they left the Map), the pending     *)
(* timers, and the _monitorCalls invocations that are suspended at an      *)
(* await.  Every method is an operator from a machine record to a machine  *)
(* record; `exc` carries a thrown exception through the rest of a method   *)
(* the way JavaScript unwinds it.                                          *)
(***************************************************************************)
EXTENDS Integers, Sequences, FiniteSets

VARIABLES
  activeCalls,           \* this.activeCalls: the callData objects in the Map's insertion order
  detached,              \* callData objects deleted from the Map that a sweep still holds
  monitoringEnabled,     \* this.monitoringEnabled
  monitoringIntervalId,  \* this.monitoringIntervalId (Null or a timer handle)
  intervals,             \* live setInterval timers (handles)
  timeouts,              \* per call id, the time left of each pending setTimeout(removeCall, 30000)
  sweeps,                \* _monitorCalls invocations suspended at an await
  errorSubscribers,      \* number of listeners registered for 'error'
  throwing,              \* notification names that have a listener which throws
  now,                   \* the wall clock read by new Date()
  op,                    \* the most recent operation and how it ended
  rt,                    \* a stand-alone invocation of retry(fn, options)
  cache,                 \* the object `cache` of the SDK entry point (its key assistants)
  remote                 \* the assistants the remote API holds (id -> version, 0: none)

vars == <<activeCalls, detached, monitoringEnabled, monitoringIntervalId, intervals,
          timeouts, sweeps, errorSubscribers, throwing, now, op, rt, cache, remote>>

engineVars == <<activeCalls, detached, monitoringEnabled, monitoringIntervalId, intervals,
                timeouts, sweeps, errorSubscribers, throwing, now, op, cache, remote>>

monitorVars == <<activeCalls, detached, monitoringEnabled, monitoringIntervalId, intervals,
                 timeouts, sweeps, errorSubscribers, throwing, now, rt>>

----------------------------------------------------------------------------
(* Bounds of the model *)

MaxClock == 1          \* the clock takes the values 0..MaxClock
MaxBatch == 2          \* events per directly ingested batch
MaxSnapshot == 1       \* events per polled snapshot
MaxEvents == 2         \* events stored in the records altogether
MaxSweeps == 1         \* _monitorCalls invocations in flight at once
MaxOverlap == 2        \* the same, where sweeps overlap
MaxTimeouts == 1       \* pending removal timeouts per call id
MaxSubscribers == 1    \* listeners for 'error'
MaxMaxRetries == 4     \* options.maxRetries of the stand-alone retry
MaxVersion == 2        \* updates of one assistant, its creation included

(* Program constants *)

DefaultMaxRetries == 3
DefaultInitialDelay == 1000
MonitorMaxRetries == 3
RemovalDelay == 30000
NotFoundStatus == 404
MsPerSecond == 1000
WordsPerMinute == 150
ShortQuestionLength == 30
AssistantsTtl == 300000

----------------------------------------------------------------------------
(* Values *)

Null == 0                       \* no timer handle
Attached == 0                   \* a sweep's callData is the object in the Map under its callId
NullRef == "null"               \* references to objects in the Map are their keys
UndefinedRef == "undefined"
Unset == [set |-> FALSE, v |-> 0]     \* a property that has not been assigned
Some(v) == [set |-> TRUE, v |-> v]
CallIds == {"c1", "c2"}
Metadatas == {"m1", "m2"}
Times == 0..MaxClock

NoError == [kind |-> "none", status |-> 0, n |-> 0]
NoData == [present |-> FALSE, text |-> 0, speaker |-> "none", score |-> 0]
NoEvent == [id |-> "none", type |-> "none", timestamp |-> 0, data |-> NoData]

Rank(status) ==
  CASE status = "initializing" -> 0
    [] status = "in-progress" -> 1
    [] status = "completed" -> 2
    [] OTHER -> -1

Notification(name) ==
  [name |-> name, callId |-> "none", ref |-> NullRef, from |-> "none", to |-> "none",
   event |-> NoEvent, error |-> NoError]

----------------------------------------------------------------------------
(* The machine record: the monitor's state as one value, together with what *)
(* the method that is running has emitted, thrown and returned              *)

Cur ==
  [activeCalls |-> activeCalls, detached |-> detached,
   monitoringEnabled |-> monitoringEnabled,
   monitoringIntervalId |-> monitoringIntervalId,
   intervals |-> intervals, timeouts |-> timeouts, sweeps |-> sweeps,
   emitted |-> <<>>, exc |-> NoError, ret |-> UndefinedRef]

Ok(m) == m.exc = NoError

Keys(m) == {m.activeCalls[i].id : i \in 1..Len(m.activeCalls)}

IndexOf(m, callId) ==
  CHOOSE i \in 1..Len(m.activeCalls) : m.activeCalls[i].id = callId

(* Map.prototype.get for a key that is present *)
MapGet(m, callId) == m.activeCalls[IndexOf(m, callId)]

RemoveAt(s, i) == [j \in 1..(Len(s) - 1) |-> IF j < i THEN s[j] ELSE s[j + 1]]

(* Objects that no sweep holds any more are garbage. *)
Collect(m) ==
  IF m.detached = <<>>
    THEN m
    ELSE LET held == {i \in 1..Len(m.detached) :
                        \E k \in 1..Len(m.sweeps) : m.sweeps[k].callData = i}
             newOf == [i \in held |-> Cardinality({j \in held : j <= i})]
         IN [m EXCEPT
               !.detached = [n \in 1..Cardinality(held) |->
                               m.detached[CHOOSE i \in held : newOf[i] = n]],
               !.sweeps = [k \in 1..Len(m.sweeps) |->
                             IF @[k].callData = Attached
                               THEN @[k]
                               ELSE [@[k] EXCEPT !.callData = newOf[@]]]]

NewHandle(m) == CHOOSE h \in 1..(Cardinality(m.intervals) + 1) : h \notin m.intervals

----------------------------------------------------------------------------
(* EventEmitter.emit: listeners run synchronously; an 'error' without a     *)
(* listener is thrown, and an exception of a listener leaves emit.          *)

SubscriberError == [kind |-> "subscriber", status |-> 0, n |-> 0]

emit(m, n) ==
  IF n.name = "error" /\ errorSubscribers = 0
    THEN [m EXCEPT !.exc = n.error]
    ELSE IF n.name \in throwing
      THEN [m EXCEPT !.emitted = Append(@, n), !.exc = SubscriberError]
      ELSE [m EXCEPT !.emitted = Append(@, n)]

----------------------------------------------------------------------------
(* CallMonitor.startMonitoring / stopMonitoring *)

(* startMonitoring without the check of lines 24-26 *)
startMonitoringNoCheck(m) ==
  LET h == NewHandle(m)
      m1 == [m EXCEPT !.monitoringEnabled = TRUE,
                      !.intervals = @ \cup {h},
                      !.monitoringIntervalId = h]
  IN emit(m1, Notification("monitoring:started"))

startMonitoring(m) ==
  IF m.monitoringIntervalId # Null
    THEN m
    ELSE LET h == NewHandle(m)
             m1 == [m EXCEPT !.monitoringEnabled = TRUE,
                             !.intervals = @ \cup {h},
                             !.monitoringIntervalId = h]
         IN emit(m1, Notification("monitoring:started"))

(* stopMonitoring without the clearInterval of line 44 *)
stopMonitoringKeepsInterval(m) ==
  IF m.monitoringIntervalId = Null
    THEN m
    ELSE LET m1 == [m EXCEPT !.monitoringIntervalId = Null,
                             !.monitoringEnabled = FALSE]
         IN emit(m1, Notification("monitoring:stopped"))

stopMonitoring(m) ==
  IF m.monitoringIntervalId = Null
    THEN m
    ELSE LET m1 == [m EXCEPT !.intervals = @ \ {m.monitoringIntervalId},
                             !.monitoringIntervalId = Null,
                             !.monitoringEnabled = FALSE]
         IN emit(m1, Notification("monitoring:stopped"))

----------------------------------------------------------------------------
(* CallMonitor.addCall / removeCall / getCall *)

(* A number of seconds that is a difference of Dates divided by 1000: the   *)
(* whole seconds (v) and the thousandths that remain (frac).                 *)
NoDuration == [set |-> FALSE, v |-> 0, frac |-> 0]

Seconds(ms) == [set |-> TRUE, v |-> ms \div MsPerSecond, frac |-> ms % MsPerSecond]

NewCallData(callId, metadata) ==
  [id |-> callId, metadata |-> metadata, status |-> "initializing",
   events |-> <<>>, createdAt |-> now, lastUpdated |-> now,
   analytics |-> [talkTime |-> 0, silenceDuration |-> 0, interruptions |-> 0,
                  sentimentScores |-> <<>>],
   answeredAt |-> Unset, endedAt |-> Unset, duration |-> NoDuration,
   transcription |-> 0]

(* addCall without the check of lines 56-58 *)
addCallNoCheck(m, callId, metadata) ==
  LET m1 == [m EXCEPT !.activeCalls = Append(@, NewCallData(callId, metadata))]
      m2 == emit(m1, [Notification("call:added") EXCEPT !.callId = callId, !.ref = callId])
      m3 == IF Ok(m2) /\ m2.monitoringIntervalId = Null THEN startMonitoring(m2) ELSE m2
  IN IF Ok(m3) THEN [m3 EXCEPT !.ret = callId] ELSE m3

addCall(m, callId, metadata) ==
  IF callId \in Keys(m)
    THEN [m EXCEPT !.ret = UndefinedRef]
    ELSE LET m1 == [m EXCEPT !.activeCalls = Append(@, NewCallData(callId, metadata))]
             m2 == emit(m1, [Notification("call:added") EXCEPT !.callId = callId, !.ref = callId])
             m3 == IF Ok(m2) /\ m2.monitoringIntervalId = Null THEN startMonitoring(m2) ELSE m2
         IN IF Ok(m3) THEN [m3 EXCEPT !.ret = callId] ELSE m3

(* Map.prototype.delete.  A sweep that holds the deleted object keeps it,    *)
(* and an entry that a live iterator has already passed no longer counts     *)
(* towards that iterator's position.                                         *)
MapDelete(m, callId) ==
  LET i == IndexOf(m, callId)
      holders == {k \in 1..Len(m.sweeps) :
                    m.sweeps[k].callId = callId /\ m.sweeps[k].callData = Attached}
      kept == IF holders = {} THEN m.detached ELSE Append(m.detached, m.activeCalls[i])
  IN [m EXCEPT !.activeCalls = RemoveAt(@, i),
               !.detached = kept,
               !.sweeps = [k \in 1..Len(m.sweeps) |->
                             [@[k] EXCEPT
                                !.pos = IF i <= @ THEN @ - 1 ELSE @,
                                !.callData = IF k \in holders THEN Len(kept) ELSE @]]]

(* removeCall without the check of lines 100-102 *)
removeCallKeepsTimer(m, callId) ==
  IF callId \notin Keys(m)
    THEN m
    ELSE LET m1 == MapDelete(m, callId)
         IN emit(m1, [Notification("call:removed") EXCEPT !.callId = callId, !.ref = callId])

(* removeCall without the condition of line 100 *)
removeCallAlwaysStops(m, callId) ==
  IF callId \notin Keys(m)
    THEN m
    ELSE LET m1 == MapDelete(m, callId)
             m2 == emit(m1, [Notification("call:removed") EXCEPT !.callId = callId, !.ref = callId])
         IN IF Ok(m2) THEN stopMonitoring(m2) ELSE m2

removeCall(m, callId) ==
  IF callId \notin Keys(m)
    THEN m
    ELSE LET m1 == MapDelete(m, callId)
             m2 == emit(m1, [Notification("call:removed") EXCEPT !.callId = callId, !.ref = callId])
         IN IF Ok(m2) /\ Len(m2.activeCalls) = 0 THEN stopMonitoring(m2) ELSE m2

getCall(m, callId) ==
  IF callId \in Keys(m) THEN callId ELSE NullRef

----------------------------------------------------------------------------
(* Transcription texts.  A text is a sequence of characters; events carry   *)
(* the index of their text in this table (0: no text).                      *)

(* a question of n characters *)
Question(n) == [i \in 1..n |-> IF i = n THEN "?" ELSE "a"]

Texts ==
  << <<"H", "i", " ", "t", "h", "e", "r", "e">>,
     <<"O", "k", "?">>,
     <<>>,
     <<" ", "h", "i", " ">>,
     Question(ShortQuestionLength - 1),
     Question(ShortQuestionLength) >>

IsSpace(ch) == ch \in {" ", "\t", "\n"}

(* text.split(/\s+/).length: one piece more than there are maximal runs of  *)
(* whitespace (an empty text splits into one empty piece).                  *)
SplitLength(text) ==
  1 + Cardinality({i \in 1..Len(text) :
                     IsSpace(text[i]) /\ (i = 1 \/ ~IsSpace(text[i - 1]))})

EndsWithQuestionMark(text) == Len(text) > 0 /\ text[Len(text)] = "?"

(* _analyzeTranscription with <= in the place of the < of line 180 *)
_analyzeTranscriptionAtMost(callData, transcription) ==
  LET text == Texts[transcription.text]
      wordCount == SplitLength(text)
      isInterruption == /\ transcription.speaker = "assistant"
                        /\ EndsWithQuestionMark(text)
                        /\ Len(text) <= ShortQuestionLength
      c1 == IF isInterruption
              THEN [callData EXCEPT !.analytics.interruptions = @ + 1]
              ELSE callData
  IN [c1 EXCEPT !.analytics.talkTime = @ + (wordCount * 60 * 1000) \div WordsPerMinute]

(* CallMonitor._analyzeTranscription.  talkTime is kept in milliseconds:    *)
(* (wordCount / 150) * 60 seconds is wordCount * 60000 / 150 ms.            *)
_analyzeTranscription(callData, transcription) ==
  LET text == Texts[transcription.text]
      wordCount == SplitLength(text)
      isInterruption == /\ transcription.speaker = "assistant"
                        /\ EndsWithQuestionMark(text)
                        /\ Len(text) < ShortQuestionLength
      c1 == IF isInterruption
              THEN [callData EXCEPT !.analytics.interruptions = @ + 1]
              ELSE callData
  IN [c1 EXCEPT !.analytics.talkTime = @ + (wordCount * 60 * 1000) \div WordsPerMinute]

----------------------------------------------------------------------------
(* CallMonitor._processCallEvents *)

TypeError == [kind |-> "TypeError", status |-> 0, n |-> 0]

(* a check that finds no event *)
HasEventIdNever(callData, id) == FALSE

HasEventId(callData, id) == \E i \in 1..Len(callData.events) : callData.events[i].id = id

(* ApplyEventType without the division of line 145 *)
ApplyEventTypeInMs(callData, event) ==
  CASE event.type = "call.answered" ->
         [callData EXCEPT !.status = "in-progress",
                          !.answeredAt = Some(event.timestamp)]
    [] event.type = "call.ended" ->
         [callData EXCEPT !.status = "completed",
                          !.endedAt = Some(event.timestamp),
                          !.duration = [set |-> TRUE, frac |-> 0,
                                        v |-> event.timestamp - callData.createdAt]]
    [] event.type = "call.transcription" ->
         _analyzeTranscription([callData EXCEPT !.transcription = event.data.text], event.data)
    [] event.type = "call.sentiment" ->
         [callData EXCEPT !.analytics.sentimentScores =
                            Append(@, [score |-> event.data.score, timestamp |-> event.timestamp])]
    [] OTHER -> callData

(* the type-specific update of lines 139-154 *)
(* an update that takes the end of a call for its answer as well *)
ApplyEventTypeEndedAnswers(callData, event) ==
  CASE event.type = "call.answered" ->
         [callData EXCEPT !.status = "in-progress",
                          !.answeredAt = Some(event.timestamp)]
    [] event.type = "call.ended" ->
         [callData EXCEPT !.status = "completed",
                          !.answeredAt = Some(event.timestamp),
                          !.endedAt = Some(event.timestamp),
                          !.duration = Seconds(event.timestamp - callData.createdAt)]
    [] event.type = "call.transcription" ->
         _analyzeTranscription([callData EXCEPT !.transcription = event.data.text], event.data)
    [] event.type = "call.sentiment" ->
         [callData EXCEPT !.analytics.sentimentScores =
                            Append(@, [score |-> event.data.score, timestamp |-> event.timestamp])]
    [] OTHER -> callData

(* an update that takes an event of any other type for the end of the call *)
ApplyEventTypeEndsOnUnknown(callData, event) ==
  CASE event.type = "call.answered" ->
         [callData EXCEPT !.status = "in-progress",
                          !.answeredAt = Some(event.timestamp)]
    [] event.type = "call.transcription" ->
         _analyzeTranscription([callData EXCEPT !.transcription = event.data.text], event.data)
    [] event.type = "call.sentiment" ->
         [callData EXCEPT !.analytics.sentimentScores =
                            Append(@, [score |-> event.data.score, timestamp |-> event.timestamp])]
    [] OTHER ->
         [callData EXCEPT !.status = "completed",
                          !.endedAt = Some(event.timestamp),
                          !.duration = Seconds(event.timestamp - callData.createdAt)]

ApplyEventType(callData, event) ==
  CASE event.type = "call.answered" ->
         [callData EXCEPT !.status = "in-progress",
                          !.answeredAt = Some(event.timestamp)]
    [] event.type = "call.ended" ->
         [callData EXCEPT !.status = "completed",
                          !.endedAt = Some(event.timestamp),
                          !.duration = Seconds(event.timestamp - callData.createdAt)]
    [] event.type = "call.transcription" ->
         _analyzeTranscription([callData EXCEPT !.transcription = event.data.text], event.data)
    [] event.type = "call.sentiment" ->
         [callData EXCEPT !.analytics.sentimentScores =
                            Append(@, [score |-> event.data.score, timestamp |-> event.timestamp])]
    [] OTHER -> callData

(* event.data.text and event.data.score throw when event.data is undefined *)
ReadsMissingData(event) ==
  event.type \in {"call.transcription", "call.sentiment"} /\ ~event.data.present

(* the entry pushed onto callData.events: data defaults to an empty object *)
StoredEvent(event) ==
  [id |-> event.id, type |-> event.type, timestamp |-> event.timestamp,
   data |-> IF event.data.present THEN event.data ELSE [NoData EXCEPT !.present = TRUE]]

(* ProcessEvent with unshift in the place of the push of line 157 *)
ProcessEventPrepends(m, callId, i, event) ==
  IF HasEventId(m.activeCalls[i], event.id)
    THEN m
    ELSE IF ReadsMissingData(event)
      THEN [m EXCEPT !.exc = TypeError]
      ELSE LET c1 == ApplyEventType(m.activeCalls[i], event)
               c2 == [c1 EXCEPT !.events = <<StoredEvent(event)>> \o @, !.lastUpdated = now]
               m1 == [m EXCEPT !.activeCalls[i] = c2]
           IN emit(m1, [Notification("call:" \o event.type) EXCEPT !.callId = callId,
                                                                   !.event = event])

(* ProcessEvent without the check of lines 134-136 *)
ProcessEventNoSkip(m, callId, i, event) ==
  IF ReadsMissingData(event)
    THEN [m EXCEPT !.exc = TypeError]
    ELSE LET c1 == ApplyEventType(m.activeCalls[i], event)
             c2 == [c1 EXCEPT !.events = Append(@, StoredEvent(event)), !.lastUpdated = now]
             m1 == [m EXCEPT !.activeCalls[i] = c2]
         IN emit(m1, [Notification("call:" \o event.type) EXCEPT !.callId = callId,
                                                                 !.event = event])

(* one iteration of the loop of lines 132-166; callData is the object that *)
(* getCall returned, the i-th of the Map                                    *)
ProcessEvent(m, callId, i, event) ==
  IF HasEventId(m.activeCalls[i], event.id)
    THEN m
    ELSE IF ReadsMissingData(event)
      THEN [m EXCEPT !.exc = TypeError]
      ELSE LET c1 == ApplyEventType(m.activeCalls[i], event)
               c2 == [c1 EXCEPT !.events = Append(@, StoredEvent(event)), !.lastUpdated = now]
               m1 == [m EXCEPT !.activeCalls[i] = c2]
           IN emit(m1, [Notification("call:" \o event.type) EXCEPT !.callId = callId,
                                                                   !.event = event])

RECURSIVE ProcessEvents(_, _, _, _)
ProcessEvents(m, callId, i, events) ==
  IF events = <<>> \/ ~Ok(m)
    THEN m
    ELSE ProcessEvents(ProcessEvent(m, callId, i, Head(events)), callId, i, Tail(events))

(* _processCallEvents that emits call:updated only when the batch brought   *)
(* something new                                                             *)
_processCallEventsQuiet(m, callId, events) ==
  IF getCall(m, callId) = NullRef
    THEN m
    ELSE LET m1 == ProcessEvents(m, callId, IndexOf(m, callId), events)
         IN IF Ok(m1) /\ m1.activeCalls # m.activeCalls
              THEN emit(m1, [Notification("call:updated") EXCEPT !.callId = callId,
                                                                 !.ref = callId])
              ELSE m1

_processCallEvents(m, callId, events) ==
  IF getCall(m, callId) = NullRef
    THEN m
    ELSE LET m1 == ProcessEvents(m, callId, IndexOf(m, callId), events)
         IN IF Ok(m1)
              THEN emit(m1, [Notification("call:updated") EXCEPT !.callId = callId,
                                                                 !.ref = callId])
              ELSE m1

----------------------------------------------------------------------------
(* retry(fn, {maxRetries, initialDelay, shouldRetry}) of src/utils/retry.js *)
(* as a record: the locals retries and lastError, where the invocation is   *)
(* suspended (pc), and what it has done so far (attempts, waits).           *)

HttpError(status, n) == [kind |-> "http", status |-> status, n |-> n]
NetworkError(n) == [kind |-> "network", status |-> 0, n |-> n]
RetryFailed == [kind |-> "RetryFailed", status |-> 0, n |-> 0]

ShouldRetries == {"always", "not404", "never"}

(* a predicate that retries whatever the error *)
ShouldRetryAnything(name, error) == TRUE

(* options.shouldRetry: the default, the scheduler's predicate of           *)
(* callMonitoring.js lines 213-216, and a predicate that never retries      *)
ShouldRetry(name, error) ==
  CASE name = "always" -> TRUE
    [] name = "not404" -> ~(error.kind = "http" /\ error.status = NotFoundStatus)
    [] OTHER -> FALSE

RECURSIVE Pow2(_)
Pow2(k) == IF k = 0 THEN 1 ELSE 2 * Pow2(k - 1)

(* Math.random() in thousandths *)
Randoms == {0, 500, 999}

(* a delay that does not grow with the retries *)
BackoffDelayFlat(initialDelay, retries, random) ==
  LET delay == initialDelay
  IN delay + (random * 2 * delay) \div 10000

(* delay + jitter of lines 29-31, in whole milliseconds *)
BackoffDelay(initialDelay, retries, random) ==
  LET delay == initialDelay * Pow2(retries)
  IN delay + (random * 2 * delay) \div 10000

RetryIdle ==
  [maxRetries |-> 0, initialDelay |-> 0, shouldRetry |-> "always",
   retries |-> 0, lastError |-> NoError, attempts |-> 0, waits |-> <<>>,
   pc |-> "idle", error |-> NoError]

(* the loop head of line 18 and what follows it *)
RetryLoop(r) ==
  IF r.retries < r.maxRetries
    THEN [r EXCEPT !.pc = "calling", !.attempts = @ + 1]
    ELSE [r EXCEPT !.pc = "thrown",
                   !.error = IF r.lastError # NoError THEN r.lastError ELSE RetryFailed]

RetryStart(maxRetries, initialDelay, shouldRetry) ==
  RetryLoop([RetryIdle EXCEPT !.maxRetries = maxRetries, !.initialDelay = initialDelay,
                              !.shouldRetry = shouldRetry])

(* fn() resolved: line 20 returns its value *)
RetryOnResolve(r) == [r EXCEPT !.pc = "returned"]

(* fn() rejected: the catch block of lines 21-34 up to the wait *)
RetryOnReject(r, error, random) ==
  LET r1 == [r EXCEPT !.lastError = error]
  IN IF ~ShouldRetry(r.shouldRetry, error) \/ r.retries = r.maxRetries - 1
       THEN [r1 EXCEPT !.pc = "thrown", !.error = error]
       ELSE [r1 EXCEPT !.pc = "waiting",
                       !.waits = Append(@, BackoffDelay(r.initialDelay, r.retries, random))]

(* the wait is over: line 33, then the loop head again *)
RetryOnTimeout(r) == RetryLoop([r EXCEPT !.retries = @ + 1])

----------------------------------------------------------------------------
(* CallMonitor._monitorCalls.  An invocation that is suspended at an await  *)
(* is a record of its locals: the Map iterator (pos entries consumed), the  *)
(* loop variables callId and callData (Attached, or which detached object),  *)
(* the retry it                                                             *)
(* awaits, the fetched snapshot `call`, and where it is suspended:          *)
(*   "fetch"   awaiting this.vapi.calls.get(callId) inside retry            *)
(*   "backoff" awaiting the backoff timer inside retry                      *)
(*   "process" awaiting the promise of _processCallEvents (line 234)        *)

NoCall == [status |-> "none", events |-> <<>>]

NewSweep ==
  [pos |-> 0, callId |-> "none", callData |-> Attached, pc |-> "start",
   r |-> RetryIdle, call |-> NoCall, failure |-> NoError]

EndSweep(m, k) == [m EXCEPT !.sweeps = RemoveAt(@, k)]

(* the object the loop variable callData of sweep k refers to *)
CallData(m, k) ==
  IF m.sweeps[k].callData = Attached
    THEN MapGet(m, m.sweeps[k].callId)
    ELSE m.detached[m.sweeps[k].callData]

(* callData.status = status *)
SetCallDataStatus(m, k, status) ==
  IF m.sweeps[k].callData = Attached
    THEN [m EXCEPT !.activeCalls[IndexOf(m, m.sweeps[k].callId)].status = status]
    ELSE [m EXCEPT !.detached[m.sweeps[k].callData].status = status]

(* lines 202-218: advance the iterator past completed calls and start the   *)
(* fetch of the next call, or leave the loop when the entries are exhausted *)
SweepLoop(m, k) ==
  LET pos == m.sweeps[k].pos
      todo == {i \in (pos + 1)..Len(m.activeCalls) :
                 m.activeCalls[i].status # "completed"}
  IN IF todo = {}
       THEN EndSweep(m, k)
       ELSE LET i == CHOOSE j \in todo : \A q \in todo : j <= q
            IN [m EXCEPT !.sweeps[k] =
                  [@ EXCEPT !.pos = i,
                            !.callId = m.activeCalls[i].id,
                            !.callData = Attached,
                            !.pc = "fetch",
                            !.r = RetryStart(MonitorMaxRetries, DefaultInitialDelay, "not404"),
                            !.call = NoCall,
                            !.failure = NoError]]

(* a catch that gives up the call whose fetch failed *)
SweepCatchRemoves(m, k, error) ==
  LET m0 == removeCall([m EXCEPT !.exc = NoError], m.sweeps[k].callId)
      m1 == emit(m0, [Notification("error") EXCEPT !.error = error])
  IN IF Ok(m1)
       THEN SweepLoop(m1, k)
       ELSE EndSweep(emit([m1 EXCEPT !.exc = NoError],
                          [Notification("error") EXCEPT !.error = m1.exc]), k)

(* lines 241-249: the catch of the loop body, and the catch around the loop *)
(* that receives whatever the first one throws                              *)
SweepCatch(m, k, error) ==
  LET m1 == emit([m EXCEPT !.exc = NoError],
                 [Notification("error") EXCEPT !.error = error])
  IN IF Ok(m1)
       THEN SweepLoop(m1, k)
       ELSE EndSweep(emit([m1 EXCEPT !.exc = NoError],
                          [Notification("error") EXCEPT !.error = m1.exc]), k)

(* lines 237-240, then the next iteration *)
SweepAfterProcess(m, k) ==
  LET sw == m.sweeps[k]
      m1 == IF sw.call.status = "completed" /\ CallData(m, k).status # "completed"
              THEN [m EXCEPT !.timeouts[sw.callId] = Append(@, RemovalDelay)]
              ELSE m
  IN SweepLoop(m1, k)

(* SweepAfterFetch without the comparison of line 221 *)
SweepAfterFetchAlwaysEmits(m, k, call) ==
  LET sw == m.sweeps[k]
      oldStatus == CallData(m, k).status
      m1 == emit(SetCallDataStatus(m, k, call.status),
                 [Notification("call:status_changed") EXCEPT
                    !.callId = sw.callId, !.from = oldStatus, !.to = call.status])
      m2 == [m1 EXCEPT !.sweeps[k].call = [call EXCEPT !.events = <<>>]]
  IN IF ~Ok(m2)
       THEN SweepCatch(m2, k, m2.exc)
       ELSE IF Len(call.events) > 0
         THEN LET m3 == _processCallEvents(m2, sw.callId, call.events)
              IN [m3 EXCEPT !.sweeps[k].pc = "process",
                            !.sweeps[k].failure = m3.exc,
                            !.exc = NoError]
         ELSE SweepAfterProcess(m2, k)

(* lines 220-235: the fetch returned `call` *)
SweepAfterFetch(m, k, call) ==
  LET sw == m.sweeps[k]
      oldStatus == CallData(m, k).status
      m1 == IF call.status # oldStatus
              THEN emit(SetCallDataStatus(m, k, call.status),
                        [Notification("call:status_changed") EXCEPT
                           !.callId = sw.callId, !.from = oldStatus, !.to = call.status])
              ELSE m
      m2 == [m1 EXCEPT !.sweeps[k].call = [call EXCEPT !.events = <<>>]]
  IN IF ~Ok(m2)
       THEN SweepCatch(m2, k, m2.exc)
       ELSE IF Len(call.events) > 0
         THEN LET m3 == _processCallEvents(m2, sw.callId, call.events)
              IN [m3 EXCEPT !.sweeps[k].pc = "process",
                            !.sweeps[k].failure = m3.exc,
                            !.exc = NoError]
         ELSE SweepAfterProcess(m2, k)

(* the await of line 234 is over *)
SweepResume(m, k) ==
  IF m.sweeps[k].failure # NoError
    THEN SweepCatch(m, k, m.sweeps[k].failure)
    ELSE SweepAfterProcess(m, k)

(* the retry of lines 209-218 has thrown `error` *)
SweepFetchFailed(m, k, error) == SweepCatch(m, k, error)

_monitorCalls(m) ==
  IF ~m.monitoringEnabled
    THEN m
    ELSE LET m1 == [m EXCEPT !.sweeps = Append(@, NewSweep)]
         IN SweepLoop(m1, Len(m1.sweeps))

----------------------------------------------------------------------------
(* Inputs *)

Data(text, speaker, score) ==
  [present |-> TRUE, text |-> text, speaker |-> speaker, score |-> score]

Event(id, type, timestamp, data) ==
  [id |-> id, type |-> type, timestamp |-> timestamp, data |-> data]

(* the events the platform and the webhook deliver *)
EventPool ==
  { Event("e1", "call.answered", 1, Data(0, "none", 0)),
    Event("e2", "call.ended", 1, Data(0, "none", 0)),
    Event("e3", "call.transcription", 0, Data(1, "user", 0)),
    Event("e4", "call.sentiment", 0, Data(0, "none", 7)) }

(* events that lack a property: the id, the type, or the data of a          *)
(* transcription                                                             *)
MalformedEvents ==
  { Event(UndefinedRef, "call.answered", 1, Data(0, "none", 0)),
    Event("e5", UndefinedRef, 1, Data(0, "none", 0)),
    Event("e6", "call.transcription", 0, NoData) }

(* events of types that lines 139-154 do not know: the platform's           *)
(* call.started, and a type of no meaning                                    *)
UnknownEvents ==
  { Event("u1", "call.started", 0, Data(0, "none", 0)),
    Event("u2", "call.recording", 1, Data(1, "user", 7)) }

(* transcriptions: what is said, and by whom *)
Speakers == {"user", "assistant"}

TranscriptionIds ==
  [user |-> <<"t1", "t2", "t3", "t4", "t5", "t6">>,
   assistant |-> <<"a1", "a2", "a3", "a4", "a5", "a6">>]

Transcriptions ==
  {Event(TranscriptionIds[speaker][i], "call.transcription", 0, Data(i, speaker, 0)) :
     i \in 1..Len(Texts), speaker \in Speakers}

EventOfType(type) == CHOOSE e \in EventPool : e.type = type

SeqsOf(pool, n) == UNION {[1..k -> pool] : k \in 0..n}

Batches == SeqsOf(EventPool, MaxBatch)

(* the status events, which are all that decides what a sweep does *)
StatusEvents == {e \in EventPool : e.type \in {"call.answered", "call.ended"}}

SnapshotStatuses == {"in-progress", "completed"}

Snapshots == [status : SnapshotStatuses, events : SeqsOf(StatusEvents, MaxSnapshot)]

(* the metadata startPhoneCall registers a call with *)
PhoneCallMetadatas == {"m1"}

(* Math.random() of the backoffs inside a sweep *)
MonitorRandoms == {500}

FetchErrors(n) == {HttpError(NotFoundStatus, n), HttpError(500, n), NetworkError(n)}

(* the failures of this.vapi.calls.get inside a sweep *)
MonitorErrors(n) == {HttpError(NotFoundStatus, n), HttpError(500, n)}

InitialDelays == {DefaultInitialDelay, 500}

----------------------------------------------------------------------------
(* The state machine *)

(* op: the operation, the call it was about, whether that call was tracked   *)
(* before it, a note on its input, and the exception that left it            *)
Op(name, callId, note) ==
  [name |-> name, callId |-> callId, tracked |-> callId \in Keys(Cur),
   note |-> note, prior |-> "none", attempts |-> 0, exc |-> NoError]

(* a step of sweep k: also the status its callData had before the step and   *)
(* the attempts its retry has made                                           *)
SweepOp(name, k, note) ==
  [Op(name, sweeps[k].callId, note) EXCEPT !.prior = CallData(Cur, k).status,
                                           !.attempts = sweeps[k].r.attempts]

StoredEvents(m) ==
  Cardinality(UNION {{<<i, j>> : j \in 1..Len(m.activeCalls[i].events)} :
                       i \in 1..Len(m.activeCalls)})

Bounded(m) ==
  /\ StoredEvents(m) <= MaxEvents
  /\ \A c \in CallIds : Len(m.timeouts[c]) <= MaxTimeouts

Commit(m0, o) ==
  LET m == Collect(m0)
  IN /\ Bounded(m)
     /\ activeCalls' = m.activeCalls
     /\ detached' = m.detached
     /\ monitoringEnabled' = m.monitoringEnabled
     /\ monitoringIntervalId' = m.monitoringIntervalId
     /\ intervals' = m.intervals
     /\ timeouts' = m.timeouts
     /\ sweeps' = m.sweeps
     /\ op' = [o EXCEPT !.exc = m.exc]
     /\ UNCHANGED <<errorSubscribers, throwing, now, rt, cache, remote>>

(* timers, I/O completions and the clock do not run between a promise      *)
(* continuation and the microtasks queued behind it                         *)
MacrotaskReady == \A k \in 1..Len(sweeps) : sweeps[k].pc # "process"

NoRetryRun == [r |-> RetryIdle, failures |-> <<>>]

----------------------------------------------------------------------------
(* The assistants cache of the SDK entry point: cache.assistants is null    *)
(* (isNull) or an object whose data is null (~hasData) or a map from the    *)
(* ids to the assistants; an assistant is the version the remote holds.     *)

AssistantIds == {"asst1", "asst2", "asst3"}

NoAssistants == [id \in AssistantIds |-> 0]

NewCacheItem ==
  [isNull |-> FALSE, hasData |-> FALSE, data |-> NoAssistants, lastUpdated |-> 0]

NullCacheItem ==
  [isNull |-> TRUE, hasData |-> FALSE, data |-> NoAssistants, lastUpdated |-> 0]

(* Date.now(): the process runs later than a time to live after 1970 *)
StartOfRun == 1000000

DateNow == StartOfRun + now

VapiError == [kind |-> "VapiError", status |-> 0, n |-> 0]

(* cache.invalidate('assistants') *)
invalidate(item) ==
  IF ~item.isNull /\ item.hasData
    THEN [item EXCEPT !.hasData = FALSE, !.data = NoAssistants, !.lastUpdated = 0]
    ELSE item

(* cache.assistants = null, of updateAssistant and deleteAssistant *)
NulledAssistants(item) == NullCacheItem

(* listAssistants({}, true) when vapi.assistants.list succeeds with the      *)
(* assistants `held`: the cache after it, whether it threw, what it          *)
(* returned and from where                                                   *)
listAssistants(item, held) ==
  IF ~item.isNull /\ item.hasData /\ DateNow - item.lastUpdated < AssistantsTtl
    THEN [item |-> item, exc |-> NoError, data |-> item.data, source |-> "cache"]
    ELSE IF held = NoAssistants
      THEN [item |-> item, exc |-> NoError, data |-> held, source |-> "remote"]
      ELSE IF item.isNull
        THEN [item |-> item, exc |-> VapiError, data |-> NoAssistants, source |-> "none"]
        ELSE [item |-> [item EXCEPT !.hasData = TRUE,
                                    !.data = [id \in AssistantIds |->
                                                IF held[id] # 0 THEN held[id] ELSE @[id]]],
              exc |-> NoError, data |-> held, source |-> "remote"]

InitOf(subscribers, throwers) ==
  /\ activeCalls = <<>>
  /\ detached = <<>>
  /\ monitoringEnabled = FALSE
  /\ monitoringIntervalId = Null
  /\ intervals = {}
  /\ timeouts = [c \in CallIds |-> <<>>]
  /\ sweeps = <<>>
  /\ errorSubscribers \in subscribers
  /\ throwing \in throwers
  /\ now = 0
  /\ op = [name |-> "init", callId |-> "none", tracked |-> FALSE, note |-> "none",
           prior |-> "none", attempts |-> 0, exc |-> NoError]
  /\ rt = NoRetryRun
  /\ cache = [assistants |-> NewCacheItem]
  /\ remote = [id \in AssistantIds |-> 0]

InitWith(subscribers) == InitOf(subscribers, {{}})

Init == InitWith(0..MaxSubscribers)

(* what each operation makes of the current state *)

AddCallStep(callId, metadata) == addCall(Cur, callId, metadata)

RemoveCallStep(callId) == removeCall(Cur, callId)

IngestStep(callId, events) == _processCallEvents(Cur, callId, events)

TickStep == _monitorCalls(Cur)

FetchResolveStep(k, call) ==
  SweepAfterFetch([Cur EXCEPT !.sweeps[k].r = RetryOnResolve(@)], k, call)

(* a rejection that starts the next call's fetch while the backoff runs *)
FetchRejectStepMovesOn(k, error, random) ==
  LET r == RetryOnReject(sweeps[k].r, error, random)
      m == [Cur EXCEPT !.sweeps[k].r = r]
  IN IF r.pc = "thrown"
       THEN SweepFetchFailed(m, k, r.error)
       ELSE SweepLoop(m, k)

FetchRejectStep(k, error, random) ==
  LET r == RetryOnReject(sweeps[k].r, error, random)
      m == [Cur EXCEPT !.sweeps[k].r = r]
  IN IF r.pc = "thrown"
       THEN SweepFetchFailed(m, k, r.error)
       ELSE [m EXCEPT !.sweeps[k].pc = "backoff"]

BackoffElapsedStep(k) ==
  LET r == RetryOnTimeout(sweeps[k].r)
      m == [Cur EXCEPT !.sweeps[k].r = r]
  IN IF r.pc = "thrown"
       THEN SweepFetchFailed(m, k, r.error)
       ELSE [m EXCEPT !.sweeps[k].pc = "fetch"]

ProcessResumeStep(k) == SweepResume(Cur, k)

(* the timers of line 239, d milliseconds later: each holds the time that  *)
(* is left of its delay                                                      *)
Later(d) ==
  [c \in CallIds |->
     [i \in 1..Len(timeouts[c]) |-> IF timeouts[c][i] > d THEN timeouts[c][i] - d ELSE 0]]

(* the time until the next removal is due *)
NextDue ==
  LET left == UNION {{timeouts[c][i] : i \in 1..Len(timeouts[c])} : c \in CallIds}
  IN CHOOSE d \in left : \A e \in left : d <= e

TimeoutFiresStep(callId) ==
  removeCall([Cur EXCEPT !.timeouts = [Later(NextDue) EXCEPT ![callId] = Tail(@)]], callId)

(* whether every event of a non-empty batch is already in the record *)
AllKnown(callId, events) ==
  /\ callId \in Keys(Cur)
  /\ events # <<>>
  /\ \A i \in 1..Len(events) : HasEventId(MapGet(Cur, callId), events[i].id)

AddCallOf(metadatas) ==
  \E callId \in CallIds, metadata \in metadatas :
    Commit(AddCallStep(callId, metadata), Op("addCall", callId, metadata))

AddCall == AddCallOf(Metadatas)

(* startPhoneCall registers the call it has created *)
RegisterCall == AddCallOf(PhoneCallMetadatas)

RemoveCall ==
  \E callId \in CallIds :
    Commit(RemoveCallStep(callId), Op("removeCall", callId, "none"))

StartMonitoring == Commit(startMonitoring(Cur), Op("startMonitoring", "none", "none"))

StopMonitoring == Commit(stopMonitoring(Cur), Op("stopMonitoring", "none", "none"))

(* direct ingestion of validated events *)
Ingest ==
  \E callId \in CallIds, events \in Batches :
    Commit(IngestStep(callId, events),
           Op("ingest", callId, IF AllKnown(callId, events) THEN "known" ELSE "new"))

(* the recurring timer fires, with at most `most` sweeps in flight after it *)
TickOf(most) ==
  /\ MacrotaskReady
  /\ intervals # {}
  /\ Len(TickStep.sweeps) <= most
  /\ Commit(TickStep, Op("tick", "none", "none"))

Tick == TickOf(MaxSweeps)

FetchResolve ==
  /\ MacrotaskReady
  /\ \E k \in 1..Len(sweeps), call \in Snapshots :
       /\ sweeps[k].pc = "fetch"
       /\ Commit(FetchResolveStep(k, call), SweepOp("fetchResolved", k, call.status))

FetchReject ==
  /\ MacrotaskReady
  /\ \E k \in 1..Len(sweeps), random \in MonitorRandoms :
       /\ sweeps[k].pc = "fetch"
       /\ \E error \in MonitorErrors(sweeps[k].r.attempts) :
            Commit(FetchRejectStep(k, error, random),
                   SweepOp("fetchRejected", k, RetryOnReject(sweeps[k].r, error, random).pc))

BackoffElapsed ==
  /\ MacrotaskReady
  /\ \E k \in 1..Len(sweeps) :
       /\ sweeps[k].pc = "backoff"
       /\ Commit(BackoffElapsedStep(k), SweepOp("backoffElapsed", k, "none"))

ProcessResume ==
  \E k \in 1..Len(sweeps) :
    /\ sweeps[k].pc = "process"
    /\ Commit(ProcessResumeStep(k), SweepOp("processResumed", k, sweeps[k].call.status))

(* a removal scheduled by line 239 fires: the one that is due next, when   *)
(* the rest of its delay has passed                                         *)
TimeoutFires ==
  /\ MacrotaskReady
  /\ \E callId \in CallIds :
       /\ timeouts[callId] # <<>>
       /\ Head(timeouts[callId]) = NextDue
       /\ Commit(TimeoutFiresStep(callId), Op("timeoutFired", callId, "none"))

AdvanceClock ==
  /\ MacrotaskReady
  /\ now < MaxClock
  /\ now' = now + 1
  /\ op' = Op("advanceClock", "none", "none")
  /\ UNCHANGED <<activeCalls, detached, monitoringEnabled, monitoringIntervalId, intervals,
                 timeouts, sweeps, errorSubscribers, throwing, rt, cache, remote>>

(* The monitor as the scheduler drives it: calls are registered and removed, *)
(* the timer ticks, fetches complete or fail, removals fall due.             *)
Next ==
  \/ RegisterCall
  \/ RemoveCall
  \/ Tick
  \/ FetchResolve
  \/ FetchReject
  \/ BackoffElapsed
  \/ ProcessResume
  \/ TimeoutFires

Spec == Init /\ [][Next]_vars

(* What the event loop guarantees: a timer that is due fires, a promise     *)
(* continuation runs, and a fetch ends, one way or the other.  Nothing      *)
(* obliges the caller to register or remove calls.                          *)
FairSpec ==
  /\ Spec
  /\ WF_vars(Tick)
  /\ WF_vars(FetchResolve \/ FetchReject)
  /\ WF_vars(BackoffElapsed)
  /\ WF_vars(ProcessResume)
  /\ WF_vars(TimeoutFires)

(* The monitor as its caller drives it between two ticks. *)
CallerInit == InitWith({MaxSubscribers})

CallerNext ==
  \/ AddCall
  \/ RemoveCall
  \/ StartMonitoring
  \/ StopMonitoring
  \/ Ingest
  \/ AdvanceClock

CallerSpec == CallerInit /\ [][CallerNext]_vars

(* The scheduler with a caller that also stops and starts it; fetches       *)
(* succeed.                                                                  *)
StopNext ==
  \/ RegisterCall
  \/ RemoveCall
  \/ StartMonitoring
  \/ StopMonitoring
  \/ Tick
  \/ FetchResolve
  \/ ProcessResume
  \/ TimeoutFires

StopSpec == InitWith({MaxSubscribers}) /\ [][StopNext]_vars

(* The monitor as its caller drives it when a listener throws. *)
ThrowingSets == {{"call:added"}, {"call:removed", "call:call.answered"}}

SubscriberSpec == InitOf({MaxSubscribers}, ThrowingSets) /\ [][CallerNext]_vars

(* The monitor with its removal timers on the clock: d milliseconds pass,   *)
(* for Date and for the timers alike, and a removal fires when nothing is    *)
(* left of its delay.  The clock is watched from the moment a removal is     *)
(* scheduled, for RemovalDelay milliseconds, and sweeps take no time.        *)
Instants == {0, 1, RemovalDelay}

Wait ==
  /\ sweeps = <<>>
  /\ \E callId \in CallIds : timeouts[callId] # <<>>
  /\ \E t \in Instants :
       /\ t > now
       /\ \A u \in Instants : u > now => t <= u
       /\ now' = t
       /\ timeouts' = Later(t - now)
  /\ op' = Op("wait", "none", "none")
  /\ UNCHANGED <<activeCalls, detached, monitoringEnabled, monitoringIntervalId, intervals,
                 sweeps, errorSubscribers, throwing, rt, cache, remote>>

TimeoutDue ==
  /\ \E callId \in CallIds : timeouts[callId] # <<>>
  /\ NextDue = 0
  /\ TimeoutFires

(* a caller that has one call at a time *)
RegisterOnly ==
  /\ activeCalls = <<>>
  /\ RegisterCall

GraceNext ==
  \/ RegisterOnly
  \/ RemoveCall
  \/ Tick
  \/ FetchResolve
  \/ ProcessResume
  \/ TimeoutDue
  \/ Wait

GraceSpec == InitWith({MaxSubscribers}) /\ [][GraceNext]_vars

(* One call that is polled while events are ingested directly: a tick may   *)
(* fire while the sweep before it still awaits its fetch or its backoff.     *)
OverlapTick == TickOf(MaxOverlap)

(* a batch of status events is ingested directly, between two tasks of the  *)
(* event loop                                                                *)
DirectIngest ==
  /\ MacrotaskReady
  /\ \E callId \in CallIds, events \in SeqsOf(StatusEvents, MaxBatch) :
       Commit(IngestStep(callId, events),
              Op("ingest", callId, IF AllKnown(callId, events) THEN "known" ELSE "new"))

OverlapNext ==
  \/ RegisterOnly
  \/ OverlapTick
  \/ FetchResolve
  \/ FetchReject
  \/ BackoffElapsed
  \/ ProcessResume
  \/ DirectIngest

OverlapSpec == InitWith({MaxSubscribers}) /\ [][OverlapNext]_vars

(* A caller that ingests events one at a time: transcriptions of every text  *)
(* by either speaker, events of unknown types, and the end of the call.      *)
IngestOne ==
  \E callId \in CallIds :
    \E event \in Transcriptions \cup UnknownEvents \cup {EventOfType("call.ended")} :
      Commit(IngestStep(callId, <<event>>),
             Op("ingest", callId, IF AllKnown(callId, <<event>>) THEN "known" ELSE event.id))

EventNext ==
  \/ RegisterOnly
  \/ RemoveCall
  \/ IngestOne

EventSpec == InitWith({MaxSubscribers}) /\ [][EventNext]_vars

----------------------------------------------------------------------------
(* The assistants of the SDK entry point: every request succeeds at the     *)
(* remote API.                                                               *)

AssistantOp(name, id, result) ==
  [name |-> name, callId |-> id, tracked |-> FALSE, note |-> result.source,
   prior |-> "none", attempts |-> 0, exc |-> result.exc]

Done == [source |-> "none", exc |-> NoError]

CreateAssistant ==
  \E id \in AssistantIds :
    /\ remote[id] = 0
    /\ remote' = [remote EXCEPT ![id] = 1]
    /\ cache' = [cache EXCEPT !.assistants = invalidate(@)]
    /\ op' = AssistantOp("createAssistant", id, Done)
    /\ UNCHANGED monitorVars

UpdateAssistant ==
  \E id \in AssistantIds :
    /\ remote[id] # 0
    /\ remote[id] < MaxVersion
    /\ remote' = [remote EXCEPT ![id] = @ + 1]
    /\ cache' = [cache EXCEPT !.assistants = NulledAssistants(@)]
    /\ op' = AssistantOp("updateAssistant", id, Done)
    /\ UNCHANGED monitorVars

DeleteAssistant ==
  \E id \in AssistantIds :
    /\ remote[id] # 0
    /\ remote' = [remote EXCEPT ![id] = 0]
    /\ cache' = [cache EXCEPT !.assistants = NulledAssistants(@)]
    /\ op' = AssistantOp("deleteAssistant", id, Done)
    /\ UNCHANGED monitorVars

ListAssistants ==
  LET result == listAssistants(cache.assistants, remote)
  IN /\ cache' = [cache EXCEPT !.assistants = result.item]
     /\ op' = AssistantOp("listAssistants", "none", result)
     /\ UNCHANGED remote
     /\ UNCHANGED monitorVars

AssistantNext ==
  \/ CreateAssistant
  \/ UpdateAssistant
  \/ DeleteAssistant
  \/ ListAssistants

AssistantSpec == InitWith({MaxSubscribers}) /\ [][AssistantNext]_vars

----------------------------------------------------------------------------
(* A stand-alone invocation of retry: rt.r is the invocation, rt.failures   *)
(* the errors with which fn has rejected so far.                            *)

RetryCall ==
  /\ rt.r.pc = "idle"
  /\ \E maxRetries \in 0..MaxMaxRetries, initialDelay \in InitialDelays,
        shouldRetry \in ShouldRetries :
       rt' = [r |-> RetryStart(maxRetries, initialDelay, shouldRetry), failures |-> <<>>]
  /\ UNCHANGED engineVars

RetryFnResolves ==
  /\ rt.r.pc = "calling"
  /\ rt' = [rt EXCEPT !.r = RetryOnResolve(@)]
  /\ UNCHANGED engineVars

RetryFnRejects ==
  /\ rt.r.pc = "calling"
  /\ \E error \in FetchErrors(rt.r.attempts), random \in Randoms :
       rt' = [r |-> RetryOnReject(rt.r, error, random),
              failures |-> Append(rt.failures, error)]
  /\ UNCHANGED engineVars

RetryTimerFires ==
  /\ rt.r.pc = "waiting"
  /\ rt' = [rt EXCEPT !.r = RetryOnTimeout(@)]
  /\ UNCHANGED engineVars

RetryNext ==
  \/ RetryCall
  \/ RetryFnResolves
  \/ RetryFnRejects
  \/ RetryTimerFires

RetrySpec == InitWith({MaxSubscribers}) /\ [][RetryNext]_vars

----------------------------------------------------------------------------
(* Properties *)

Names(m) == {m.emitted[j].name : j \in 1..Len(m.emitted)}

Count(m, name) == Cardinality({j \in 1..Len(m.emitted) : m.emitted[j].name = name})

Tracked == Keys(Cur)

(* C1: the status of a tracked record never moves backwards in the order    *)
(* initializing < in-progress < completed, whatever is ingested or polled.  *)
C1_StatusNeverRegresses ==
  [][\A c \in CallIds :
       (c \in Tracked /\ c \in Tracked') =>
          Rank(MapGet(Cur, c).status)' >= Rank(MapGet(Cur, c).status)]_vars

(* every redelivery of an event the record holds, under whatever type *)
Redeliveries(callId) ==
  {[e EXCEPT !.type = t] :
     e \in {x \in EventPool : HasEventId(MapGet(Cur, callId), x.id)},
     t \in {x.type : x \in EventPool}}

(* C2: ingesting a batch all of whose event ids the record already holds     *)
(* leaves the record's events, status and analytics as they were and emits   *)
(* nothing but call:updated (no call:status_changed, no per-type             *)
(* notification).                                                            *)
C2_KnownBatchChangesNothing ==
  \A c \in Tracked :
    \A events \in SeqsOf(Redeliveries(c), MaxBatch) \ {<<>>} :
      LET m == IngestStep(c, events)
      IN /\ Ok(m)
         /\ Len(MapGet(m, c).events) = Len(MapGet(Cur, c).events)
         /\ MapGet(m, c).events = MapGet(Cur, c).events
         /\ MapGet(m, c).status = MapGet(Cur, c).status
         /\ MapGet(m, c).analytics = MapGet(Cur, c).analytics
         /\ Names(m) = {"call:updated"}

(* a batch of known events has been ingested into a record that holds a      *)
(* transcription and a sentiment score                                       *)
C2_Witness ==
  /\ op.name = "ingest" /\ op.note = "known" /\ op.tracked
  /\ MapGet(Cur, op.callId).analytics.talkTime > 0
  /\ MapGet(Cur, op.callId).analytics.sentimentScores # <<>>

(* C5: a tracked record whose status is completed has endedAt set.           *)
C5_CompletedHasEndedAt ==
  \A c \in Tracked : MapGet(Cur, c).status = "completed" => MapGet(Cur, c).endedAt.set

(* C6: addCall with an id that is already tracked leaves one record for the  *)
(* id, leaves that record (and the rest of the monitor) as it was, and emits *)
(* nothing.                                                                  *)
C6_ReAddChangesNothing ==
  \A c \in Tracked, metadata \in Metadatas :
    LET m == AddCallStep(c, metadata)
    IN /\ Ok(m)
       /\ Cardinality({i \in 1..Len(m.activeCalls) : m.activeCalls[i].id = c}) = 1
       /\ MapGet(m, c) = MapGet(Cur, c)
       /\ m.activeCalls = activeCalls
       /\ m.monitoringIntervalId = monitoringIntervalId
       /\ m.emitted = <<>>

(* addCall has been called with other metadata for a call that has a history *)
C6_Witness ==
  /\ op.name = "addCall" /\ op.tracked
  /\ MapGet(Cur, op.callId).metadata # op.note
  /\ MapGet(Cur, op.callId).status = "completed"
  /\ MapGet(Cur, op.callId).events # <<>>
  /\ MapGet(Cur, op.callId).createdAt # now

(* C7: addCall on an id that is already tracked returns the record that      *)
(* getCall returns for the id.                                               *)
C7_ReAddReturnsRecord ==
  \A c \in Tracked, metadata \in Metadatas :
    AddCallStep(c, metadata).ret = getCall(AddCallStep(c, metadata), c)

(* the calls a sweep that has consumed pos entries has still to poll *)
Remaining(m, pos) ==
  {m.activeCalls[i].id : i \in {j \in (pos + 1)..Len(m.activeCalls) :
                                   m.activeCalls[j].status # "completed"}}

(* C3: a tracked call that a poll has just found completed, its cached       *)
(* status not having been completed, is eventually no longer tracked.        *)
C3_CompletedIsEvicted ==
  \A c \in CallIds :
    (/\ op.name = "fetchResolved" /\ op.callId = c
     /\ op.note = "completed" /\ op.prior # "completed"
     /\ c \in Tracked /\ MapGet(Cur, c).status = "completed")
      ~> (c \notin Tracked)

(* C4: when the fetch of a call fails for good, the sweep emits an error     *)
(* notification, no exception leaves it, and it goes on to the next call it  *)
(* has still to poll; with or without a listener for 'error'.                *)
C4_FetchFailureIsIsolated ==
  \A k \in 1..Len(sweeps) :
    (MacrotaskReady /\ sweeps[k].pc = "fetch") =>
      \A error \in MonitorErrors(sweeps[k].r.attempts), random \in MonitorRandoms :
        RetryOnReject(sweeps[k].r, error, random).pc = "thrown" =>
          LET m == FetchRejectStep(k, error, random)
              todo == Remaining(Cur, sweeps[k].pos)
          IN /\ Ok(m)
             /\ Count(m, "error") >= 1
             /\ todo # {} => /\ Len(m.sweeps) >= k
                             /\ m.sweeps[k].pc = "fetch"
                             /\ m.sweeps[k].callId \in todo

(* C8: a retry with maxRetries 3 and initialDelay 1000 whose attempts all    *)
(* fail with retryable errors calls fn at most 3 times, waits 1000..1200 ms  *)
(* before the second attempt and 2000..2400 ms before the third, does not    *)
(* wait after the last attempt, and throws the error of the last attempt.    *)
C8_BackoffTiming ==
  LET r == rt.r
  IN (/\ r.pc # "idle"
      /\ r.maxRetries = DefaultMaxRetries /\ r.initialDelay = DefaultInitialDelay
      /\ \A i \in 1..Len(rt.failures) : ShouldRetry(r.shouldRetry, rt.failures[i])) =>
       /\ r.attempts <= 3
       /\ Len(r.waits) <= 2
       /\ Len(r.waits) >= 1 => r.waits[1] >= 1000 /\ r.waits[1] <= 1200
       /\ Len(r.waits) >= 2 => r.waits[2] >= 2000 /\ r.waits[2] <= 2400
       /\ r.pc = "waiting" => Len(r.waits) = r.attempts
       /\ r.pc = "calling" => Len(r.waits) = r.attempts - 1
       /\ r.pc = "thrown" => /\ r.attempts = 3
                             /\ Len(r.waits) = 2
                             /\ Len(rt.failures) = 3
                             /\ r.error = rt.failures[3]

(* retry has given up after three failures with jittered waits *)
C8_Witness ==
  /\ rt.r.pc = "thrown" /\ rt.r.shouldRetry = "always"
  /\ rt.r.maxRetries = DefaultMaxRetries /\ rt.r.initialDelay = DefaultInitialDelay
  /\ rt.r.attempts = 3
  /\ rt.r.waits[1] > 1000 /\ rt.r.waits[2] > 2000

(* C9: when an attempt of the scheduler's fetch fails with HTTP 404, retry   *)
(* throws that error without another attempt and without a wait; the sweep   *)
(* does not fetch the call again, and a fetch whose first attempt gets 404   *)
(* has been attempted once.                                                  *)
C9_NotFoundIsNotRetried ==
  \A k \in 1..Len(sweeps) :
    (MacrotaskReady /\ sweeps[k].pc = "fetch") =>
      \A n \in 1..MonitorMaxRetries, random \in Randoms :
        LET error == HttpError(NotFoundStatus, n)
            r == RetryOnReject(sweeps[k].r, error, random)
            m == FetchRejectStep(k, error, random)
        IN /\ r.pc = "thrown"
           /\ r.error = error
           /\ r.attempts = sweeps[k].r.attempts
           /\ r.waits = sweeps[k].r.waits
           /\ sweeps[k].r.retries = 0 => r.attempts = 1 /\ r.waits = <<>>
           /\ IF Ok(m) /\ Remaining(Cur, sweeps[k].pos) # {}
                THEN /\ Len(m.sweeps) = Len(sweeps)
                     /\ m.sweeps[k].pc = "fetch"
                     /\ m.sweeps[k].pos > sweeps[k].pos
                     /\ m.sweeps[k].r.attempts = 1
                ELSE Len(m.sweeps) = Len(sweeps) - 1

(* the first attempt of a fetch has failed with 404 and retry has thrown *)
C9_Witness ==
  /\ op.name = "fetchRejected" /\ op.note = "thrown" /\ op.attempts = 1
  /\ op.tracked

Dormant(m) == ~m.monitoringEnabled /\ m.monitoringIntervalId = Null /\ m.intervals = {}

(* C10: adding a call to an empty registry whose scheduler is dormant makes  *)
(* the scheduler active, with one timer running and monitoring:started       *)
(* emitted; removing the only tracked call of an active scheduler makes it   *)
(* dormant, with no timer left and monitoring:stopped emitted.               *)
C10_SchedulerLifecycle ==
  /\ (activeCalls = <<>> /\ Dormant(Cur)) =>
       \A c \in CallIds, metadata \in Metadatas :
         LET m == AddCallStep(c, metadata)
         IN /\ Ok(m)
            /\ m.monitoringEnabled
            /\ m.monitoringIntervalId # Null
            /\ m.intervals = {m.monitoringIntervalId}
            /\ Count(m, "monitoring:started") = 1
            /\ Count(m, "monitoring:stopped") = 0
  /\ \A c \in Tracked :
       Tracked = {c} =>
         LET m == RemoveCallStep(c)
         IN /\ Ok(m)
            /\ m.activeCalls = <<>>
            /\ Dormant(m)
            /\ monitoringIntervalId # Null =>
                 /\ Count(m, "monitoring:stopped") = 1
                 /\ Count(m, "monitoring:started") = 0

(* the only tracked call has been removed and the scheduler is dormant *)
C10_Witness ==
  /\ op.name = "removeCall" /\ op.tracked
  /\ activeCalls = <<>>
  /\ Dormant(Cur)

(* C11: whenever addCall is called while the scheduler is dormant, the       *)
(* scheduler is active when addCall returns, whether or not the id is        *)
(* already tracked.                                                          *)
C11_AddCallActivates ==
  Dormant(Cur) =>
    \A c \in CallIds, metadata \in Metadatas :
      LET m == AddCallStep(c, metadata)
      IN m.monitoringEnabled /\ m.monitoringIntervalId # Null /\ m.intervals # {}

(* C12: a record that is completed when a removal timer removes it has been  *)
(* completed for at least 30 seconds; a record cannot have been completed    *)
(* for longer than it has been registered, so it was registered at least     *)
(* RemovalDelay milliseconds before.                                         *)
C12_GraceWindow ==
  [][\A c \in CallIds :
       (/\ op'.name = "timeoutFired" /\ op'.callId = c
        /\ c \in Tracked /\ c \notin Tracked'
        /\ MapGet(Cur, c).status = "completed") =>
          now - MapGet(Cur, c).createdAt >= RemovalDelay]_vars

StatusChanged(callId, from, to) ==
  [Notification("call:status_changed") EXCEPT !.callId = callId, !.from = from, !.to = to]

(* C13: an ingestion emits call:status_changed, with the call id, the status *)
(* before the batch and the status after it, exactly when the two differ.    *)
C13_IngestionEmitsStatusChange ==
  \A c \in Tracked, events \in Batches :
    LET m == IngestStep(c, events)
        from == MapGet(Cur, c).status
        to == MapGet(m, c).status
    IN /\ to # from =>
            \E j \in 1..Len(m.emitted) : m.emitted[j] = StatusChanged(c, from, to)
       /\ to = from => Count(m, "call:status_changed") = 0

(* C14: registering a call and ingesting an answered event, a transcription  *)
(* event and an ended event as three batches takes the status through       *)
(* initializing, in-progress and completed and emits exactly three           *)
(* call:status_changed notifications.                                        *)
C14_AnsweredTranscribedEnded ==
  \A c \in CallIds \ Tracked, metadata \in Metadatas :
    LET m1 == addCall(Cur, c, metadata)
        m2 == _processCallEvents(m1, c, <<EventOfType("call.answered")>>)
        m3 == _processCallEvents(m2, c, <<EventOfType("call.transcription")>>)
        m4 == _processCallEvents(m3, c, <<EventOfType("call.ended")>>)
    IN /\ Ok(m4)
       /\ MapGet(m1, c).status = "initializing"
       /\ MapGet(m2, c).status = "in-progress"
       /\ MapGet(m3, c).status = "in-progress"
       /\ MapGet(m4, c).status = "completed"
       /\ Count(m4, "call:status_changed") = 3

(* the object that callData of sweep k refers to, as machine m has it *)
SweepObject(m, k) ==
  IF sweeps[k].callData = Attached
    THEN MapGet(m, sweeps[k].callId)
    ELSE m.detached[sweeps[k].callData]

(* whether the snapshot brings the record tracked under callId a status      *)
(* event it does not hold yet                                                *)
BringsStatusEvent(callId, call) ==
  /\ callId \in Tracked
  /\ \E i \in 1..Len(call.events) :
       /\ call.events[i].type \in {"call.answered", "call.ended"}
       /\ ~HasEventId(MapGet(Cur, callId), call.events[i].id)

(* C15: when the fetch of a sweep succeeds, call:status_changed {callId,     *)
(* from: cached status, to: fetched status} is emitted exactly when the two  *)
(* differ, before anything the snapshot's events emit, and the cached status *)
(* is the fetched status afterwards unless the snapshot brings a new status  *)
(* event.                                                                    *)
C15_SweepStatusChange ==
  \A k \in 1..Len(sweeps) :
    (MacrotaskReady /\ sweeps[k].pc = "fetch") =>
      \A call \in Snapshots :
        LET from == CallData(Cur, k).status
            m == FetchResolveStep(k, call)
        IN /\ Ok(m)
           /\ call.status # from =>
                /\ Count(m, "call:status_changed") = 1
                /\ m.emitted[1] = StatusChanged(sweeps[k].callId, from, call.status)
           /\ call.status = from => Count(m, "call:status_changed") = 0
           /\ ~BringsStatusEvent(sweeps[k].callId, call) =>
                SweepObject(m, k).status = call.status

(* a fetch has found an initializing call in progress and its snapshot's     *)
(* event has been stored                                                     *)
C15_Witness ==
  /\ op.name = "fetchResolved" /\ op.tracked
  /\ op.prior = "initializing" /\ op.note = "in-progress"
  /\ op.callId \in Tracked
  /\ MapGet(Cur, op.callId).status = "in-progress"
  /\ MapGet(Cur, op.callId).events # <<>>

(* C16: when the fetch of a call fails for good (404, or the last retry),    *)
(* the registry, the records, the timers and the scheduler are as before,    *)
(* nothing but an error notification carrying the failure is emitted, and    *)
(* the call, if it is tracked and not completed, is among those the next     *)
(* tick polls.                                                               *)
C16_FetchFailureKeepsCall ==
  \A k \in 1..Len(sweeps) :
    (MacrotaskReady /\ sweeps[k].pc = "fetch") =>
      \A error \in FetchErrors(sweeps[k].r.attempts), random \in MonitorRandoms :
        RetryOnReject(sweeps[k].r, error, random).pc = "thrown" =>
          LET m == FetchRejectStep(k, error, random)
              c == sweeps[k].callId
          IN /\ m.activeCalls = activeCalls
             /\ m.detached = detached
             /\ m.timeouts = timeouts
             /\ m.intervals = intervals
             /\ m.monitoringEnabled = monitoringEnabled
             /\ m.monitoringIntervalId = monitoringIntervalId
             /\ \A j \in 1..Len(m.emitted) :
                  m.emitted[j] = [Notification("error") EXCEPT !.error = error]
             /\ Ok(m) => Len(m.emitted) = 1
             /\ (c \in Tracked /\ MapGet(Cur, c).status # "completed") =>
                  /\ c \in Remaining(m, 0)
                  /\ m.monitoringEnabled => m.intervals # {}

(* the third attempt to fetch a tracked call has failed, with a listener     *)
(* for 'error'                                                               *)
C16_Witness ==
  /\ op.name = "fetchRejected" /\ op.note = "thrown" /\ op.attempts = MonitorMaxRetries
  /\ op.callId \in Tracked
  /\ MapGet(Cur, op.callId).status = "in-progress"
  /\ errorSubscribers > 0
  /\ monitoringEnabled

(* C17: with a listener that throws, addCall still leaves the scheduler      *)
(* active, removeCall of the only tracked call still leaves it dormant, an   *)
(* ingestion still stores every new event of its batch and emits             *)
(* call:updated, and none of them throws.                                    *)
C17_ThrowingSubscriberIsContained ==
  /\ \A c \in CallIds \ Tracked, metadata \in Metadatas :
       LET m == AddCallStep(c, metadata)
       IN Ok(m) /\ m.monitoringEnabled /\ m.intervals # {}
  /\ \A c \in Tracked :
       LET m == RemoveCallStep(c)
       IN Ok(m) /\ (Tracked = {c} => Dormant(m))
  /\ \A c \in Tracked, events \in Batches :
       LET m == IngestStep(c, events)
       IN /\ Ok(m)
          /\ Count(m, "call:updated") = 1
          /\ \A i \in 1..Len(events) : HasEventId(MapGet(m, c), events[i].id)

(* whether sweep k of machine m has gone on to fetch one of the calls *)
GoesOn(m, k, calls) ==
  /\ Len(m.sweeps) = Len(sweeps)
  /\ m.sweeps[k].pc = "fetch"
  /\ m.sweeps[k].callId \in calls

(* C18: while the scheduler is stopped its timer is cancelled and no sweep   *)
(* begins; stopping leaves the sweeps in flight as they are, and a sweep in  *)
(* flight, stopped scheduler or not, applies the snapshot its fetch returns  *)
(* and goes on to the calls it has still to poll.                            *)
C18_StopSemantics ==
  /\ ~monitoringEnabled =>
       /\ intervals = {}
       /\ monitoringIntervalId = Null
       /\ TickStep.sweeps = sweeps
  /\ stopMonitoring(Cur).sweeps = sweeps
  /\ \A k \in 1..Len(sweeps) :
       /\ (MacrotaskReady /\ sweeps[k].pc = "fetch") =>
            \A call \in Snapshots :
              LET m == FetchResolveStep(k, call)
              IN /\ Ok(m)
                 /\ ~BringsStatusEvent(sweeps[k].callId, call) =>
                      SweepObject(m, k).status = call.status
                 /\ (call.events = <<>> /\ Remaining(Cur, sweeps[k].pos) # {}) =>
                      GoesOn(m, k, Remaining(Cur, sweeps[k].pos))
                 /\ call.events # <<>> =>
                      Len(m.sweeps) = Len(sweeps) /\ m.sweeps[k].pc = "process"
       /\ (sweeps[k].pc = "process" /\ Remaining(Cur, sweeps[k].pos) # {}) =>
            GoesOn(ProcessResumeStep(k), k, Remaining(Cur, sweeps[k].pos))

(* with the scheduler stopped and calls still tracked, a fetch has returned  *)
(* and the sweep has gone on to the next call                                *)
C18_Witness ==
  /\ op.name = "fetchResolved"
  /\ ~monitoringEnabled /\ intervals = {}
  /\ activeCalls # <<>>
  /\ sweeps # <<>> /\ sweeps[1].pc = "fetch" /\ sweeps[1].callId # op.callId

(* the places of a batch that hold an event for the first time: one the      *)
(* record does not hold and the batch has not delivered before               *)
Arrivals(callId, events) ==
  {p \in 1..Len(events) :
     /\ ~HasEventId(MapGet(Cur, callId), events[p].id)
     /\ \A q \in 1..(p - 1) : events[q].id # events[p].id}

(* C19: an ingestion leaves the events the record holds as they are, in      *)
(* their places, and appends the events that are new, once each, in the      *)
(* order of the batch.                                                       *)
C19_EventsAppendOnly ==
  \A c \in Tracked, events \in Batches :
    LET old == MapGet(Cur, c).events
        new == MapGet(IngestStep(c, events), c).events
        P == Arrivals(c, events)
    IN /\ Len(new) = Len(old) + Cardinality(P)
       /\ \A i \in 1..Len(old) : new[i] = old[i]
       /\ \A p \in P :
            new[Len(old) + Cardinality({q \in P : q <= p})] = StoredEvent(events[p])

(* a record holds two events in the order of their arrival, the ended event  *)
(* before the answered event                                                 *)
C19_Witness ==
  /\ op.name = "ingest" /\ op.note = "new" /\ op.tracked
  /\ Len(MapGet(Cur, op.callId).events) = 2
  /\ MapGet(Cur, op.callId).events[1].type = "call.ended"
  /\ MapGet(Cur, op.callId).events[2].type = "call.answered"

(* the timestamps of the ended events that are tried *)
EndedStamps == {0, 1, 1500, RemovalDelay}

(* C20: ingesting an ended event the record does not hold sets endedAt to    *)
(* the event's timestamp and the duration to endedAt minus createdAt, in     *)
(* seconds: its whole seconds and thousandths make up that many              *)
(* milliseconds.                                                             *)
C20_EndedSetsDuration ==
  \A c \in Tracked, t \in EndedStamps :
    LET e == [EventOfType("call.ended") EXCEPT !.id = "ended", !.timestamp = t]
        rec == MapGet(IngestStep(c, <<e>>), c)
    IN /\ rec.endedAt = Some(t)
       /\ rec.duration.set
       /\ rec.duration.frac >= 0 /\ rec.duration.frac < 1000
       /\ rec.duration.v * 1000 + rec.duration.frac = t - MapGet(Cur, c).createdAt
       /\ rec.createdAt = MapGet(Cur, c).createdAt

(* a call registered at instant 1 has ended and has got a duration *)
C20_Witness ==
  /\ op.name = "ingest" /\ op.note = "new" /\ op.tracked
  /\ MapGet(Cur, op.callId).createdAt = 1
  /\ MapGet(Cur, op.callId).endedAt = Some(1)
  /\ MapGet(Cur, op.callId).duration = Seconds(0)

(* whether sweep k of machine m is still at the call it was at *)
SameCall(m, k) ==
  /\ Len(m.sweeps) = Len(sweeps)
  /\ m.sweeps[k].callId = sweeps[k].callId
  /\ m.sweeps[k].pos = sweeps[k].pos

(* C21: a sweep is at one call at a time and has at most one fetch in        *)
(* flight: a fetch that fails retryably leaves the sweep waiting at the same *)
(* call with no fetch issued, the end of the wait issues the next attempt    *)
(* for the same call, and a snapshot with events leaves the sweep at the     *)
(* same call until their ingestion has been awaited; only then does the      *)
(* sweep fetch the next call.                                                *)
C21_OneFetchAtATime ==
  \A k \in 1..Len(sweeps) :
    /\ sweeps[k].pc \in {"fetch", "backoff", "process"}
    /\ (MacrotaskReady /\ sweeps[k].pc = "fetch") =>
         /\ \A error \in FetchErrors(sweeps[k].r.attempts), random \in MonitorRandoms :
              RetryOnReject(sweeps[k].r, error, random).pc = "waiting" =>
                LET m == FetchRejectStep(k, error, random)
                IN /\ SameCall(m, k)
                   /\ m.sweeps[k].pc = "backoff"
                   /\ m.sweeps[k].r.attempts = sweeps[k].r.attempts
         /\ \A call \in Snapshots :
              call.events # <<>> =>
                LET m == FetchResolveStep(k, call)
                IN /\ SameCall(m, k)
                   /\ m.sweeps[k].pc = "process"
                   /\ m.sweeps[k].r.attempts = sweeps[k].r.attempts
    /\ (MacrotaskReady /\ sweeps[k].pc = "backoff") =>
         LET m == BackoffElapsedStep(k)
         IN /\ SameCall(m, k)
            /\ m.sweeps[k].pc = "fetch"
            /\ m.sweeps[k].r.attempts = sweeps[k].r.attempts + 1

(* a sweep waits out a backoff for one call while another call is still to   *)
(* be polled                                                                 *)
C21_Witness ==
  /\ op.name = "fetchRejected" /\ op.note = "waiting"
  /\ sweeps # <<>> /\ sweeps[1].pc = "backoff"
  /\ Remaining(Cur, sweeps[1].pos) # {}

(* the notifications of machine m that carry an event *)
PerType(m) == SelectSeq(m.emitted, LAMBDA n : n.event # NoEvent)

(* C22: an ingestion emits, for the events it appends, one notification each *)
(* that carries the call id and the event, in the order of the batch and     *)
(* before call:updated; the notification of a transcription event goes to    *)
(* the subscribers of 'call:transcription'.                                  *)
C22_PerTypeFanOut ==
  \A c \in Tracked, events \in Batches :
    LET m == IngestStep(c, events)
        P == Arrivals(c, events)
    IN /\ Len(PerType(m)) = Cardinality(P)
       /\ Len(m.emitted) = Cardinality(P) + 1
       /\ m.emitted[Len(m.emitted)].name = "call:updated"
       /\ \A p \in P :
            LET n == PerType(m)[Cardinality({q \in P : q <= p})]
            IN /\ n.callId = c
               /\ n.event = events[p]
               /\ events[p].type = "call.transcription" => n.name = "call:transcription"

(* C23: adding a call that is not tracked emits call:started once, with the  *)
(* call id and the metadata the caller supplied.                             *)
C23_AddCallEmitsStarted ==
  \A c \in CallIds \ Tracked, metadata \in Metadatas :
    LET m == AddCallStep(c, metadata)
        started == {j \in 1..Len(m.emitted) : m.emitted[j].name = "call:started"}
    IN /\ Cardinality(started) = 1
       /\ \A j \in started :
            /\ m.emitted[j].callId = c
            /\ m.emitted[j].ref = c
            /\ MapGet(m, c).metadata = metadata

(* C24: no record holds two events with the same id, whether the events     *)
(* come from one sweep, from two sweeps that overlap, or from a direct       *)
(* ingestion between the steps of a sweep.                                   *)
C24_EventIdsAreUnique ==
  /\ \A i \in 1..Len(activeCalls) :
       \A p, q \in 1..Len(activeCalls[i].events) :
         activeCalls[i].events[p].id = activeCalls[i].events[q].id => p = q
  /\ \A i \in 1..Len(detached) :
       \A p, q \in 1..Len(detached[i].events) :
         detached[i].events[p].id = detached[i].events[q].id => p = q

(* two sweeps are in flight for a call whose record holds two events, and a  *)
(* batch the record already held has just been ingested directly             *)
C24_Witness ==
  /\ Len(sweeps) = 2
  /\ sweeps[1].callId = sweeps[2].callId
  /\ sweeps[1].callId \in Tracked
  /\ Len(MapGet(Cur, sweeps[1].callId).events) = 2
  /\ op.name = "ingest" /\ op.note = "known"

Active(m) ==
  /\ m.monitoringEnabled
  /\ m.monitoringIntervalId # Null
  /\ m.intervals = {m.monitoringIntervalId}

(* C25: with calls added and removed, sweeps driven by the timer, removals   *)
(* by their timeouts and events ingested directly, the scheduler is active   *)
(* when the registry holds a call and dormant when it holds none; an         *)
(* ingestion changes neither the registry's keys nor the scheduler.          *)
C25_ActiveIffTracked ==
  /\ activeCalls # <<>> => Active(Cur)
  /\ activeCalls = <<>> => Dormant(Cur)
  /\ \A c \in CallIds, e \in EventPool :
       LET m == IngestStep(c, <<e>>)
       IN /\ Keys(m) = Tracked
          /\ m.monitoringEnabled = monitoringEnabled
          /\ m.monitoringIntervalId = monitoringIntervalId
          /\ m.intervals = intervals

(* a removal timeout has removed one of two calls and the scheduler is still *)
(* active for the other                                                      *)
C25_Witness ==
  /\ op.name = "timeoutFired" /\ op.tracked
  /\ Len(activeCalls) = 1
  /\ Active(Cur)

(* C26: at most one recurring timer exists, and monitoringEnabled is true    *)
(* exactly when a handle is set, the handle of that timer; startMonitoring   *)
(* while a handle is set and stopMonitoring while none is set change nothing *)
(* and emit nothing; monitoring:started is emitted only by a step that sets  *)
(* the handle and monitoring:stopped only by a step that clears it, once, so *)
(* that the two alternate, beginning with monitoring:started.                *)
C26_TimerInvariants ==
  /\ Cardinality(intervals) <= 1
  /\ monitoringEnabled <=> monitoringIntervalId # Null
  /\ monitoringIntervalId # Null => intervals = {monitoringIntervalId}
  /\ monitoringIntervalId = Null => intervals = {}
  /\ monitoringIntervalId # Null =>
       /\ startMonitoring(Cur) = Cur
       /\ stopMonitoring(Cur).emitted = <<Notification("monitoring:stopped")>>
       /\ Dormant(stopMonitoring(Cur))
  /\ monitoringIntervalId = Null =>
       /\ stopMonitoring(Cur) = Cur
       /\ startMonitoring(Cur).emitted = <<Notification("monitoring:started")>>
       /\ Active(startMonitoring(Cur))
  /\ \A c \in CallIds :
       /\ \A metadata \in Metadatas :
            LET m == AddCallStep(c, metadata)
            IN /\ Count(m, "monitoring:stopped") = 0
               /\ Count(m, "monitoring:started") =
                    IF monitoringIntervalId = Null /\ m.monitoringIntervalId # Null
                      THEN 1 ELSE 0
               /\ m.monitoringIntervalId = Null => monitoringIntervalId = Null
       /\ LET m == RemoveCallStep(c)
          IN /\ Count(m, "monitoring:started") = 0
             /\ Count(m, "monitoring:stopped") =
                  IF monitoringIntervalId # Null /\ m.monitoringIntervalId = Null
                    THEN 1 ELSE 0
             /\ m.monitoringIntervalId # Null => monitoringIntervalId # Null

(* the scheduler has been stopped while a call is tracked *)
C26_Witness ==
  /\ op.name = "stopMonitoring"
  /\ activeCalls # <<>>
  /\ Dormant(Cur)

(* the sweeps of machine m that began after the current state and are at    *)
(* the call                                                                  *)
LaterSweepsAt(m, callId) ==
  {k \in 1..Len(m.sweeps) : k > Len(sweeps) /\ m.sweeps[k].callId = callId}

(* C27: a sweep that reaches a call whose cached status is completed does    *)
(* not fetch it; and once a record is completed, a sweep that begins later,  *)
(* whatever has been ingested in between, does not change the record's       *)
(* status, events or analytics.                                              *)
C27_CompletedIsFinal ==
  \A c \in Tracked :
    MapGet(Cur, c).status = "completed" =>
      /\ LaterSweepsAt(TickStep, c) = {}
      /\ \A events \in Batches, call \in Snapshots :
           LET m1 == _processCallEvents(Cur, c, events)
               m2 == _monitorCalls(m1)
           IN \A k \in LaterSweepsAt(m2, c) :
                LET m3 == SweepAfterFetch([m2 EXCEPT !.sweeps[k].r = RetryOnResolve(@)],
                                          k, call)
                IN /\ MapGet(m3, c).status = MapGet(m2, c).status
                   /\ MapGet(m3, c).events = MapGet(m2, c).events
                   /\ MapGet(m3, c).analytics = MapGet(m2, c).analytics

(* C28: a call that is registered while a sweep awaits a fetch is not        *)
(* fetched by that sweep: when the fetch returns, the sweep does not go on   *)
(* to the new call.                                                          *)
C28_SweepSkipsNewCalls ==
  \A k \in 1..Len(sweeps) :
    (MacrotaskReady /\ sweeps[k].pc = "fetch") =>
      \A c \in CallIds \ (Tracked \cup {sweeps[k].callId}) :
        \A metadata \in PhoneCallMetadatas, call \in Snapshots :
          LET m1 == addCall(Cur, c, metadata)
              m2 == SweepAfterFetch([m1 EXCEPT !.sweeps[k].r = RetryOnResolve(@)], k, call)
          IN \A j \in 1..Len(m2.sweeps) : m2.sweeps[j].callId # c

(* C29: when the fetch of a call that was removed while the fetch was in     *)
(* flight returns, no notification is emitted for the id and the id is not   *)
(* put back into the registry; a record registered under the id in the       *)
(* meantime keeps its status unless the snapshot brings events.              *)
C29_RemovedCallIsSilent ==
  \A k \in 1..Len(sweeps) :
    (MacrotaskReady /\ sweeps[k].pc = "fetch" /\ sweeps[k].callData # Attached) =>
      \A call \in Snapshots :
        LET m == FetchResolveStep(k, call)
            c == sweeps[k].callId
        IN /\ \A j \in 1..Len(m.emitted) : m.emitted[j].callId # c
           /\ c \notin Tracked => c \notin Keys(m)
           /\ (c \in Tracked /\ call.events = <<>>) =>
                MapGet(m, c).status = MapGet(Cur, c).status

(* C30: a snapshot with a malformed event (no id, no type, or a             *)
(* transcription without data) lets no exception leave the sweep; the sweep  *)
(* goes on to the calls it has still to poll and the timer stays.            *)
C30_MalformedEventIsContained ==
  \A k \in 1..Len(sweeps) :
    (MacrotaskReady /\ sweeps[k].pc = "fetch" /\ sweeps[k].callId \in Tracked) =>
      \A e \in MalformedEvents, status \in SnapshotStatuses :
        LET m1 == FetchResolveStep(k, [status |-> status, events |-> <<e>>])
            m2 == SweepResume(m1, k)
            todo == Remaining(m1, m1.sweeps[k].pos)
        IN /\ Ok(m1)
           /\ Ok(m2)
           /\ todo # {} => GoesOn(m2, k, todo)
           /\ m2.intervals = intervals
           /\ m2.monitoringEnabled = monitoringEnabled

(* C31: retry calls fn at least once and at most maxRetries times, whatever *)
(* maxRetries >= 0 and shouldRetry are; it returns at the first attempt that *)
(* succeeds, and otherwise throws an error with which fn has rejected.       *)
C31_RetryRunsAtLeastOnce ==
  LET r == rt.r
  IN r.pc # "idle" =>
       /\ r.attempts >= 1
       /\ r.attempts <= r.maxRetries
       /\ r.pc = "returned" => Len(rt.failures) = r.attempts - 1
       /\ r.pc = "thrown" =>
            /\ Len(rt.failures) = r.attempts
            /\ \E i \in 1..Len(rt.failures) : r.error = rt.failures[i]

(* C32: ingesting an answered event the record does not hold makes the       *)
(* status in-progress and sets answeredAt to the event's timestamp when      *)
(* answeredAt is unset; an answeredAt that is set stays as it is.            *)
C32_AnsweredAtSetOnce ==
  \A c \in Tracked, t \in Times :
    LET e == [EventOfType("call.answered") EXCEPT !.id = "answered", !.timestamp = t]
        old == MapGet(Cur, c)
        rec == MapGet(IngestStep(c, <<e>>), c)
    IN /\ rec.status = "in-progress"
       /\ rec.answeredAt = IF old.answeredAt.set THEN old.answeredAt ELSE Some(t)

(* C33: an ingestion for a tracked id emits call:updated once, carrying the  *)
(* record, as its last notification, when every event of the batch has been  *)
(* processed, also when the record held them all; an ingestion for an id     *)
(* that is not tracked changes nothing and emits nothing.                    *)
C33_IngestEmitsOneUpdated ==
  \A c \in CallIds, events \in Batches :
    LET m == IngestStep(c, events)
    IN IF c \in Tracked
         THEN /\ Ok(m)
              /\ Count(m, "call:updated") = 1
              /\ m.emitted[Len(m.emitted)] =
                   [Notification("call:updated") EXCEPT !.callId = c, !.ref = c]
              /\ getCall(m, c) = c
              /\ \A i \in 1..Len(events) : HasEventId(MapGet(m, c), events[i].id)
         ELSE m = Cur

(* a batch of two events that a completed record already held has been      *)
(* ingested                                                                  *)
C33_Witness ==
  /\ op.name = "ingest" /\ op.note = "known" /\ op.tracked
  /\ MapGet(Cur, op.callId).status = "completed"
  /\ Len(MapGet(Cur, op.callId).events) = 2

(* C34: ingesting an event of a type other than answered, ended,             *)
(* transcription and sentiment, which the record does not hold, appends it   *)
(* to the events once and leaves the status, answeredAt, endedAt, the        *)
(* duration, the transcription and the analytics as they were.               *)
C34_UnknownTypeOnlyAppends ==
  \A c \in Tracked, e \in UnknownEvents :
    ~HasEventId(MapGet(Cur, c), e.id) =>
      LET old == MapGet(Cur, c)
          rec == MapGet(IngestStep(c, <<e>>), c)
      IN /\ Ok(IngestStep(c, <<e>>))
         /\ rec.events = Append(old.events, StoredEvent(e))
         /\ rec.status = old.status
         /\ rec.answeredAt = old.answeredAt
         /\ rec.endedAt = old.endedAt
         /\ rec.duration = old.duration
         /\ rec.transcription = old.transcription
         /\ rec.analytics = old.analytics

(* a record that holds a transcription has taken in an event of unknown type *)
C34_Witness ==
  /\ op.name = "ingest" /\ op.note \in {e.id : e \in UnknownEvents} /\ op.tracked
  /\ Len(MapGet(Cur, op.callId).events) = 2
  /\ MapGet(Cur, op.callId).events[2].type = "call.recording"
  /\ MapGet(Cur, op.callId).status = "initializing"
  /\ MapGet(Cur, op.callId).analytics.talkTime > 0

(* whether the record has ever taken in an answered event *)
Answered(callData) ==
  \/ callData.answeredAt.set
  \/ \E i \in 1..Len(callData.events) : callData.events[i].type = "call.answered"

(* C35: ingesting an ended event into a record that has never taken in an    *)
(* answered event throws nothing and leaves the record completed, with       *)
(* endedAt and the duration set and answeredAt unset.                        *)
C35_EndedWithoutAnswer ==
  \A c \in Tracked, t \in EndedStamps :
    ~Answered(MapGet(Cur, c)) =>
      LET e == [EventOfType("call.ended") EXCEPT !.id = "ended", !.timestamp = t]
          m == IngestStep(c, <<e>>)
      IN /\ Ok(m)
         /\ MapGet(m, c).status = "completed"
         /\ MapGet(m, c).endedAt = Some(t)
         /\ MapGet(m, c).duration = Seconds(t - MapGet(Cur, c).createdAt)
         /\ ~MapGet(m, c).answeredAt.set

(* a call has ended that was never answered *)
C35_Witness ==
  /\ op.name = "ingest" /\ op.note = "new" /\ op.tracked
  /\ MapGet(Cur, op.callId).status = "completed"
  /\ MapGet(Cur, op.callId).endedAt.set
  /\ MapGet(Cur, op.callId).duration.set
  /\ ~Answered(MapGet(Cur, op.callId))

(* C36: ingesting a transcription event the record does not hold adds 1 to   *)
(* analytics.interruptions when the speaker is the assistant and the text    *)
(* ends with a question mark and has fewer than 30 characters, and leaves    *)
(* interruptions as they were otherwise (30 characters are too many).        *)
C36_InterruptionHeuristic ==
  \A c \in Tracked, e \in Transcriptions :
    ~HasEventId(MapGet(Cur, c), e.id) =>
      LET text == Texts[e.data.text]
          counts == /\ e.data.speaker = "assistant"
                    /\ Len(text) >= 1 /\ text[Len(text)] = "?"
                    /\ Len(text) < 30
          old == MapGet(Cur, c).analytics.interruptions
          new == MapGet(IngestStep(c, <<e>>), c).analytics.interruptions
      IN new = IF counts THEN old + 1 ELSE old

(* the assistant has asked a question of 30 characters and then one of 29,   *)
(* and one interruption has been counted                                     *)
C36_Witness ==
  /\ op.name = "ingest" /\ op.note = "a5" /\ op.tracked
  /\ Len(MapGet(Cur, op.callId).events) = 2
  /\ MapGet(Cur, op.callId).events[1].id = "a6"
  /\ MapGet(Cur, op.callId).events[2].id = "a5"
  /\ MapGet(Cur, op.callId).analytics.interruptions = 1

(* the whitespace-delimited tokens of a text: its maximal runs of characters *)
(* that are not whitespace                                                   *)
Tokens(text) ==
  Cardinality({i \in 1..Len(text) :
                 ~IsSpace(text[i]) /\ (i = 1 \/ IsSpace(text[i - 1]))})

(* C37: ingesting a transcription event the record does not hold adds 0.4    *)
(* seconds (400 ms) to analytics.talkTime for every whitespace-delimited     *)
(* token of the text, nothing for a text without tokens and nothing for      *)
(* whitespace at either end; talkTime does not decrease.                     *)
C37_TalkTimePerToken ==
  \A c \in Tracked, e \in Transcriptions :
    ~HasEventId(MapGet(Cur, c), e.id) =>
      LET old == MapGet(Cur, c).analytics.talkTime
          new == MapGet(IngestStep(c, <<e>>), c).analytics.talkTime
      IN /\ new = old + 400 * Tokens(Texts[e.data.text])
         /\ new >= old

(* C38: whatever assistants have been created, updated and deleted, a        *)
(* listAssistants whose remote request succeeds does not throw and returns   *)
(* what the remote holds, not a list from the cache; and after a creation,   *)
(* an update or a deletion the cache holds no list.                          *)
C38_AssistantsCacheStaysUsable ==
  LET result == listAssistants(cache.assistants, remote)
  IN /\ result.exc = NoError
     /\ result.data = remote
     /\ result.source = "remote"
     /\ op.name \in {"createAssistant", "updateAssistant", "deleteAssistant"} =>
          ~(~cache.assistants.isNull /\ cache.assistants.hasData)

====
